---- MODULE Spec2Model ----
(***************************************************************************)
(* tmdb-proxy: the caching reverse proxy of src/src/tmdbProxy.js.          *)
(*                                                                         *)
(* The model follows Node's run-to-completion scheduling.  A macrotask is  *)
(* one of: a request arriving (the handler runs up to its first await),    *)
(* an upstream reply or transport error (the continuation of               *)
(* fetchFromUpstream), the sweep timer, and the clock advancing.  The      *)
(* promise reactions a macrotask schedules (the finally block of the       *)
(* coalesced fetch, the resumption of every handler awaiting it) are the   *)
(* microtask queue `microtasks`; no macrotask runs until it is drained.    *)
(***************************************************************************)
EXTENDS Integers, Sequences, FiniteSets, TLC

(* ---------------------------------------------------------------- bounds *)

NumReqs == 3        \* requests the model lets arrive
NumKeys == 2        \* distinct cache keys
MaxTime == 3        \* the clock runs 0..MaxTime
MaxBodyLen == 3     \* length of the longest upstream body
MaxChunks == 1      \* chunks of a media body before its end

(* ------------------------------------------------- configuration (small) *)

cacheDurationMs == 2
maxCacheSize == 1
maxCacheBodyBytes == 4

Reqs == 1..NumReqs
Keys == 1..NumKeys

\* One key more than Keys: with maxCacheSize + 2 keys requested, only eviction
\* keeps the cache from holding them all.
SizeKeys == 1..(NumKeys + 1)
Methods == {"GET", "POST"}
Statuses == {200, 404}
Messages == {"ECONNRESET", "ETIMEDOUT"}

\* n copies of the character c
Pad(c, n) == [i \in 1..n |-> c]

\* The bodies upstream returns: two short ones that differ, and a long one.
Bodies == {Pad("x", 1), Pad("y", 1), Pad("x", MaxBodyLen)}

VARIABLES
    now,                    \* Date.now()
    cache,                  \* the Map `cache`, in insertion order
    inflight,               \* the Map `inflight`: key -> owner of the promise, 0 = absent
    cacheMissSingleflight,  \* the coalescing switch
    reqs,                   \* per request: position in the handler, ctx, response
    microtasks,             \* pending promise reactions, in order
    lastEviction,           \* observation of the latest checkCacheSize that deleted
    closed,                 \* the requests whose client connection has closed
    stream,                 \* per request: the route taken and the media stream
    crashed,                \* an exception left an event listener uncaught
    probe                   \* inputs and results of the pure functions

\* The state outside the cache engine.
extra == <<closed, stream, crashed, probe>>

vars == <<now, cache, inflight, cacheMissSingleflight, reqs, microtasks, lastEviction,
          extra>>

(* ------------------------------------------------------------ the Map ops *)

Has(c, k) == \E i \in 1..Len(c) : c[i].key = k

Get(c, k) == c[CHOOSE i \in 1..Len(c) : c[i].key = k]

Delete(c, k) == SelectSeq(c, LAMBDA e : e.key # k)

SetExpiryLater(c, k, data, expiry) ==
    LET e == [key |-> k, data |-> data, expiry |-> expiry + 1]
    IN  IF Has(c, k)
        THEN [i \in 1..Len(c) |-> IF c[i].key = k THEN e ELSE c[i]]
        ELSE Append(c, e)

\* Map.set: an existing key keeps its position, a new key goes last.
Set(c, k, data, expiry) ==
    LET e == [key |-> k, data |-> data, expiry |-> expiry]
    IN  IF Has(c, k)
        THEN [i \in 1..Len(c) |-> IF c[i].key = k THEN e ELSE c[i]]
        ELSE Append(c, e)

(* ------------------------------------------------------- pure functions *)

isCacheableAnyMethod(method) == TRUE

\* isCacheableRequest, for a request on the API path
isCacheableRequest(method) == method = "GET"

\* JSON.stringify of a string body: the characters between two quotes
Serialize(data) == <<"\"">> \o data \o <<"\"">>

\* Buffer.byteLength(JSON.stringify(response.data))
SizeBytes(data) == Len(Serialize(data))

FitsCacheNoLimit(data) == TRUE

\* sizeBytes <= maxCacheBodyBytes
FitsCache(data) == SizeBytes(data) <= maxCacheBodyBytes

IsLiveNoExpiry(entry, t) == TRUE

IsLiveNever(entry, t) == FALSE

\* Date.now() < cachedData.expiry
IsLive(entry, t) == t < entry.expiry

cleanEveryEntry(c, t) == <<>>

\* cleanExpiredCache: delete every entry with now > value.expiry
cleanExpiredCache(c, t) == SelectSeq(c, LAMBDA e : ~(t > e.expiry))

CompareDescending(a, b) == b.expiry - a.expiry

\* the comparator of entries.sort: a[1].expiry - b[1].expiry
Compare(a, b) == a.expiry - b.expiry

\* x goes after every element that does not compare greater (the sort is stable)
InsertSorted(s, x) ==
    LET n == Cardinality({i \in 1..Len(s) : Compare(s[i], x) <= 0})
    IN  SubSeq(s, 1, n) \o <<x>> \o SubSeq(s, n + 1, Len(s))

RECURSIVE SortEntries(_)
SortEntries(s) ==
    IF s = <<>> THEN <<>>
    ELSE InsertSorted(SortEntries(SubSeq(s, 1, Len(s) - 1)), s[Len(s)])

\* checkCacheSize with the limit as a parameter
checkCacheSizeAt(c, limit) ==
    IF Len(c) <= limit THEN c
    ELSE LET entries == SortEntries(c)
             deleteCount == Len(c) - limit
             victims == {entries[i].key : i \in 1..deleteCount}
         IN  SelectSeq(c, LAMBDA e : e.key \notin victims)

checkCacheSizeNothing(c) == c

\* checkCacheSize: over the limit, delete the first (size - limit) entries of
\* the entries sorted by expiry
checkCacheSize(c) ==
    IF Len(c) <= maxCacheSize THEN c
    ELSE LET entries == SortEntries(c)
             deleteCount == Len(c) - maxCacheSize
             victims == {entries[i].key : i \in 1..deleteCount}
         IN  SelectSeq(c, LAMBDA e : e.key \notin victims)

RegisterNothing(infl, k, r) == infl

\* inflight.set(cacheKey, promise)
Register(infl, k, r) == [infl EXCEPT ![k] = r]

UnregisterOnSuccess(infl, k, shared) ==
    IF shared.kind = "err" THEN infl ELSE [infl EXCEPT ![k] = 0]

\* finally { inflight.delete(cacheKey) }: on either outcome of the fetch
Unregister(infl, k, shared) == [infl EXCEPT ![k] = 0]

\* sendJson(res, 200, cachedData.data)
HitReply(entry) == [status |-> 200, body |-> entry.data]

ReplyOkFromShared(shared) == [status |-> 200, body |-> shared.data]

\* sendJson(res, shared.status, shared.data) of the owner and of the direct fetch
ReplyFromShared(shared) == [status |-> shared.status, body |-> shared.data]

\* Lines 422-431: a HEAD is answered with the upstream status and res.end()
HeadReply(shared) == [status |-> shared.status, body |-> <<>>]

WaiterReplyOk(shared) == [status |-> 200, body |-> shared.data]

\* sendJson(res, shared.status, shared.data) of a waiter
WaiterReply(shared) == [status |-> shared.status, body |-> shared.data]

\* the handler's catch: error.response is undefined for a transport error
ReplyFromError(shared) == [status |-> 500, body |-> <<"error", shared.message>>]

(* ------------------------------------------------------------ the state *)

NoShared == [kind |-> "none", status |-> 0, data |-> <<>>, cache_result |-> "",
             message |-> ""]

NoResp == [status |-> 0, body |-> <<>>]

NewReq == [pc |-> "new", key |-> 0, method |-> "", fetched |-> FALSE, awaits |-> 0,
           shared |-> NoShared, ctx_cache |-> "", ctx_singleflight |-> "",
           resp |-> NoResp]

NoEviction == [removed |-> <<>>, kept |-> <<>>]

\* What the client has received of a response: no status line yet, no body.
NoWire == [status |-> 0, body |-> <<>>]

\* A request the router has not seen yet: no branch taken, no upstream media
\* request, a fresh ServerResponse (statusCode 200, no header flushed).
NoStream == [route |-> "", path |-> <<>>, upstream |-> "none", piped |-> FALSE,
             statusCode |-> 200, headersSent |-> FALSE, writableEnded |-> FALSE,
             wire |-> NoWire]

NoProbe == [fn |-> "", args |-> <<>>, result |-> <<>>]

\* The server has just started: no client has closed, nothing is routed, no
\* exception was thrown.
InitExtra ==
    /\ closed = {}
    /\ stream = [r \in Reqs |-> NoStream]
    /\ crashed = FALSE
    /\ probe = NoProbe

InitEngine ==
    /\ now = 0
    /\ cache = <<>>
    /\ inflight = [k \in SizeKeys |-> 0]
    /\ reqs = [r \in Reqs |-> NewReq]
    /\ microtasks = <<>>
    /\ lastEviction = NoEviction

Init ==
    /\ InitEngine
    /\ cacheMissSingleflight \in BOOLEAN
    /\ InitExtra

(* ------------------------------------------- a request arrives (proxyApi) *)

\* Guard of every arrival: a macrotask; requests are numbered as they arrive and
\* keys as they are first requested.
CanArrive(r, k) ==
    /\ microtasks = <<>>
    /\ reqs[r].pc = "new"
    /\ \A q \in Reqs : q < r => reqs[q].pc # "new"
    /\ k = 1 \/ \E q \in Reqs : reqs[q].key = k - 1

\* cacheable && cache.has(cacheKey)
Found(k, m) == isCacheableRequest(m) /\ Has(cache, k)

\* ... and Date.now() < cachedData.expiry
Hit(k, m) == Found(k, m) /\ IsLive(Get(cache, k), now)

AfterLookupKeep(k, m) == cache

\* The cache after the lookup: an entry found expired is deleted.
AfterLookup(k, m) == IF Found(k, m) /\ ~Hit(k, m) THEN Delete(cache, k) ELSE cache

\* Lines 298-305: a live entry is served, status 200, without any await.
ArriveHit(r, k, m) ==
    /\ CanArrive(r, k)
    /\ Hit(k, m)
    /\ reqs' = [reqs EXCEPT ![r] = [@ EXCEPT !.pc = "done", !.key = k, !.method = m,
                                             !.ctx_cache = "hit",
                                             !.resp = HitReply(Get(cache, k))]]
    /\ UNCHANGED <<now, cache, inflight, cacheMissSingleflight, microtasks, lastEviction, extra>>

\* Lines 365-370: a fetch of the key is pending; await its promise.
ArriveAttach(r, k, m) ==
    /\ CanArrive(r, k)
    /\ ~Hit(k, m)
    /\ isCacheableRequest(m) /\ cacheMissSingleflight
    /\ inflight[k] # 0
    /\ cache' = AfterLookup(k, m)
    /\ reqs' = [reqs EXCEPT ![r] = [@ EXCEPT !.pc = "waiting", !.key = k, !.method = m,
                                             !.ctx_cache = "miss",
                                             !.ctx_singleflight = "hit",
                                             !.awaits = inflight[k]]]
    /\ UNCHANGED <<now, inflight, cacheMissSingleflight, microtasks, lastEviction, extra>>

\* Lines 391-401: no fetch is pending; start one (the async function runs up to
\* axios.request), register its promise, await it.
ArriveOwner(r, k, m) ==
    /\ CanArrive(r, k)
    /\ ~Hit(k, m)
    /\ isCacheableRequest(m) /\ cacheMissSingleflight
    /\ inflight[k] = 0
    /\ cache' = AfterLookup(k, m)
    /\ inflight' = Register(inflight, k, r)
    /\ reqs' = [reqs EXCEPT ![r] = [@ EXCEPT !.pc = "fetching", !.key = k, !.method = m,
                                             !.ctx_cache = "miss",
                                             !.ctx_singleflight = "miss",
                                             !.fetched = TRUE,
                                             !.awaits = r]]
    /\ UNCHANGED <<now, cacheMissSingleflight, microtasks, lastEviction, extra>>

\* Line 415: not cacheable, or coalescing is off: fetch and await.
ArriveDirect(r, k, m) ==
    /\ CanArrive(r, k)
    /\ ~Hit(k, m)
    /\ ~(isCacheableRequest(m) /\ cacheMissSingleflight)
    /\ cache' = AfterLookup(k, m)
    /\ reqs' = [reqs EXCEPT ![r] = [@ EXCEPT !.pc = "fetching", !.key = k, !.method = m,
                                             !.ctx_cache = IF isCacheableRequest(m)
                                                           THEN "miss" ELSE "bypass",
                                             !.fetched = TRUE,
                                             !.awaits = r]]
    /\ UNCHANGED <<now, inflight, cacheMissSingleflight, microtasks, lastEviction, extra>>

(* ------------------------------------- the upstream answers (fetchFromUpstream) *)

\* The reaction that follows the settlement of r's fetch.
AfterFetch(r) ==
    IF reqs[r].ctx_singleflight = "miss"
    THEN <<[kind |-> "finally", req |-> r]>>
    ELSE <<[kind |-> "resume", req |-> r]>>

CacheResultAnyStatus(cacheable, status, data) ==
    IF ~cacheable THEN "bypass"
    ELSE IF FitsCache(data) THEN "store"
    ELSE "skip_size"

\* cache_result of lines 335, 348-359
CacheResult(cacheable, status, data) ==
    IF ~cacheable THEN "bypass"
    ELSE IF status # 200 THEN "skip_status"
    ELSE IF FitsCache(data) THEN "store"
    ELSE "skip_size"

\* Lines 327-362: axios resolves with any status; a 200 within the size limit is
\* stored after checkCacheSize.
UpstreamReply(r, status, data) ==
    /\ microtasks = <<>>
    /\ reqs[r].pc = "fetching"
    /\ LET k == reqs[r].key
           result == CacheResult(isCacheableRequest(reqs[r].method), status, data)
           checked == checkCacheSize(cache)
       IN  /\ cache' = IF result = "store"
                       THEN Set(checked, k, data, now + cacheDurationMs)
                       ELSE cache
           /\ lastEviction' =
                  IF result = "store" /\ checked # cache
                  THEN [removed |-> SelectSeq(cache, LAMBDA e : ~Has(checked, e.key)),
                        kept |-> checked]
                  ELSE lastEviction
           /\ reqs' = [reqs EXCEPT ![r] = [@ EXCEPT !.pc = "settled",
                           !.shared = [kind |-> "ok", status |-> status, data |-> data,
                                       cache_result |-> result, message |-> ""]]]
    /\ microtasks' = AfterFetch(r)
    /\ UNCHANGED <<now, inflight, cacheMissSingleflight, extra>>

\* Line 327: axios rejects (DNS, TLS, connect, reset); nothing is stored.
UpstreamError(r, message) ==
    /\ microtasks = <<>>
    /\ reqs[r].pc = "fetching"
    /\ reqs' = [reqs EXCEPT ![r] = [@ EXCEPT !.pc = "settled",
                    !.shared = [kind |-> "err", status |-> 0, data |-> <<>>,
                                cache_result |-> "", message |-> message]]]
    /\ microtasks' = AfterFetch(r)
    /\ UNCHANGED <<now, cache, inflight, cacheMissSingleflight, lastEviction, extra>>

(* ------------------------------------------------------ promise reactions *)

OnlyOwner(r) == <<r>>

\* The handlers awaiting r's promise, in the order they began to await: the
\* owner (line 401), then the waiters (line 370) as they arrived.
Awaiters(r) ==
    <<r>> \o SelectSeq([i \in 1..NumReqs |-> i],
                       LAMBDA q : q # r /\ reqs[q].pc = "waiting" /\ reqs[q].awaits = r)

\* Lines 395-397: the finally block, then the promise settles.
Finally(r) ==
    /\ microtasks # <<>>
    /\ Head(microtasks) = [kind |-> "finally", req |-> r]
    /\ inflight' = Unregister(inflight, reqs[r].key, reqs[r].shared)
    /\ microtasks' = Tail(microtasks) \o
                       [i \in 1..Len(Awaiters(r)) |-> [kind |-> "resume", req |-> Awaiters(r)[i]]]
    /\ UNCHANGED <<now, cache, cacheMissSingleflight, reqs, lastEviction, extra>>

\* ctx.cache of a resumed handler: lines 379-383 (waiter), 407, 433-435.
CtxCache(q, shared) ==
    IF reqs[q].awaits # q /\ shared.cache_result = "store" THEN "singleflight"
    ELSE shared.cache_result

\* Lines 370-388, 401-412, 415-439: the awaiting handler resumes and replies;
\* a rejection reaches the catch of lines 507-514.
Resume(q) ==
    /\ microtasks # <<>>
    /\ Head(microtasks) = [kind |-> "resume", req |-> q]
    /\ LET shared == reqs[reqs[q].awaits].shared
       IN  reqs' = [reqs EXCEPT ![q] =
                      IF shared.kind = "ok"
                      THEN [@ EXCEPT !.pc = "done",
                                     !.ctx_cache = CtxCache(q, shared),
                                     !.resp = IF reqs[q].awaits # q
                                              THEN WaiterReply(shared)
                                              ELSE IF reqs[q].method = "HEAD"
                                              THEN HeadReply(shared)
                                              ELSE ReplyFromShared(shared)]
                      ELSE [@ EXCEPT !.pc = "done",
                                     !.resp = ReplyFromError(shared)]]
    /\ microtasks' = Tail(microtasks)
    /\ UNCHANGED <<now, cache, inflight, cacheMissSingleflight, lastEviction, extra>>

(* ------------------------------------------------------- timer and clock *)

\* setInterval(cleanExpiredCache, cacheDurationMs)
Sweep ==
    /\ microtasks = <<>>
    /\ cache' = cleanExpiredCache(cache, now)
    /\ UNCHANGED <<now, inflight, cacheMissSingleflight, reqs, microtasks, lastEviction, extra>>

\* Time passes between macrotasks.
Tick ==
    /\ microtasks = <<>>
    /\ now < MaxTime
    /\ now' = now + 1
    /\ UNCHANGED <<cache, inflight, cacheMissSingleflight, reqs, microtasks, lastEviction, extra>>

Next ==
    \/ \E r \in Reqs, k \in Keys, m \in Methods : ArriveHit(r, k, m)
    \/ \E r \in Reqs, k \in Keys, m \in Methods : ArriveAttach(r, k, m)
    \/ \E r \in Reqs, k \in Keys, m \in Methods : ArriveOwner(r, k, m)
    \/ \E r \in Reqs, k \in Keys, m \in Methods : ArriveDirect(r, k, m)
    \/ \E r \in Reqs, status \in Statuses, data \in Bodies : UpstreamReply(r, status, data)
    \/ \E r \in Reqs, message \in Messages : UpstreamError(r, message)
    \/ \E r \in Reqs : Finally(r)
    \/ \E q \in Reqs : Resume(q)
    \/ Sweep
    \/ Tick

Spec == Init /\ [][Next]_vars

(* ---------------------------------------------------- the router (handler) *)

\* url.pathname, as its segments: "/" has none.
Root == <<>>

\* A path of the API: the cache key k stands for its path and query.
ApiPath(k) == <<"3", ToString(k)>>

\* A path under the media prefix: /t/p/w500
MediaPaths == {<<"t", "p", "w500">>}

\* pathname.startsWith('/t/p/')
isImagePath(pathname) == Len(pathname) >= 3 /\ pathname[1] = "t" /\ pathname[2] = "p"

RoutePathFirst(method, pathname) ==
    IF pathname = Root THEN "health"
    ELSE IF isImagePath(pathname) THEN "image"
    ELSE IF method = "OPTIONS" THEN "options"
    ELSE "api"

\* Lines 481-506: the branch a request takes, the first whose test holds.
Route(method, pathname) ==
    IF method = "OPTIONS" THEN "options"
    ELSE IF pathname = Root THEN "health"
    ELSE IF isImagePath(pathname) THEN "image"
    ELSE "api"

\* JSON.stringify({ name: 'tmdb-proxy', status: 'ok' })
HealthBody == <<"name", "tmdb-proxy", "status", "ok">>

\* res.end(...) on a response whose header is not flushed yet: the status line
\* and the body reach the client, the response is finished.
EndResponse(st, status, body) ==
    [st EXCEPT !.statusCode = status, !.headersSent = TRUE, !.writableEnded = TRUE,
               !.wire = [status |-> status, body |-> body]]

\* Lines 481-485: OPTIONS on any path is answered 200 with no body.
ArriveOptions(r, m, p) ==
    /\ CanArrive(r, 1) /\ ~crashed
    /\ Route(m, p) = "options"
    /\ reqs' = [reqs EXCEPT ![r] = [@ EXCEPT !.pc = "done", !.method = m,
                                             !.resp = [status |-> 200, body |-> <<>>]]]
    /\ stream' = [stream EXCEPT ![r] =
                      EndResponse([@ EXCEPT !.route = "options", !.path = p], 200, <<>>)]
    /\ UNCHANGED <<now, cache, inflight, cacheMissSingleflight, microtasks, lastEviction,
                   closed, crashed, probe>>

\* Lines 487-498: the root path is answered 200 with the health payload.
ArriveHealth(r, m, p) ==
    /\ CanArrive(r, 1) /\ ~crashed
    /\ Route(m, p) = "health"
    /\ reqs' = [reqs EXCEPT ![r] = [@ EXCEPT !.pc = "done", !.method = m,
                                             !.resp = [status |-> 200, body |-> HealthBody]]]
    /\ stream' = [stream EXCEPT ![r] =
                      EndResponse([@ EXCEPT !.route = "health", !.path = p], 200, HealthBody)]
    /\ UNCHANGED <<now, cache, inflight, cacheMissSingleflight, microtasks, lastEviction,
                   closed, crashed, probe>>

\* Lines 501-503, 246-285: proxyImage sends the upstream request and returns.
ArriveImage(r, m, p) ==
    /\ CanArrive(r, 1) /\ ~crashed
    /\ Route(m, p) = "image"
    /\ reqs' = [reqs EXCEPT ![r] = [@ EXCEPT !.pc = "image", !.method = m,
                                             !.fetched = TRUE]]
    /\ stream' = [stream EXCEPT ![r] = [@ EXCEPT !.route = "image", !.path = p,
                                                 !.upstream = "sent"]]
    /\ UNCHANGED <<now, cache, inflight, cacheMissSingleflight, microtasks, lastEviction,
                   closed, crashed, probe>>

(* ------------------------------------------- the media stream (proxyImage) *)

\* A media request whose upstream request is neither answered to its end, nor
\* failed, nor aborted.
UpstreamOpen(r) == stream[r].upstream \in {"sent", "responding"}

\* Lines 265-274: the upstream answers; its status and headers are set on the
\* response (not flushed yet) and its body is piped to the client.
ImageResponse(r, status) ==
    /\ microtasks = <<>> /\ ~crashed
    /\ stream[r].upstream = "sent"
    /\ stream' = [stream EXCEPT ![r] = [@ EXCEPT !.upstream = "responding",
                                                 !.statusCode = status,
                                                 !.piped = TRUE]]
    /\ UNCHANGED <<now, cache, inflight, cacheMissSingleflight, reqs, microtasks,
                   lastEviction, closed, crashed, probe>>

\* upstreamRes.pipe(res): a chunk is written; the first write flushes the
\* status line and the headers.
ImageChunk(r) ==
    /\ microtasks = <<>> /\ ~crashed
    /\ stream[r].upstream = "responding" /\ stream[r].piped
    /\ ~stream[r].writableEnded
    /\ Len(stream[r].wire.body) < MaxChunks
    /\ stream' = [stream EXCEPT ![r] =
                      [@ EXCEPT !.headersSent = TRUE,
                                !.wire = [status |-> IF stream[r].headersSent
                                                     THEN stream[r].wire.status
                                                     ELSE stream[r].statusCode,
                                          body |-> Append(stream[r].wire.body, "chunk")]]]
    /\ UNCHANGED <<now, cache, inflight, cacheMissSingleflight, reqs, microtasks,
                   lastEviction, closed, crashed, probe>>

\* upstreamRes.pipe(res): the upstream body ends and pipe ends the response.
ImageEnd(r) ==
    /\ microtasks = <<>> /\ ~crashed
    /\ stream[r].upstream = "responding" /\ stream[r].piped
    /\ ~stream[r].writableEnded
    /\ LET status == IF stream[r].headersSent THEN stream[r].wire.status
                     ELSE stream[r].statusCode
           wire == [status |-> status, body |-> stream[r].wire.body]
       IN  /\ stream' = [stream EXCEPT ![r] = [@ EXCEPT !.upstream = "ended",
                                                        !.headersSent = TRUE,
                                                        !.writableEnded = TRUE,
                                                        !.wire = wire]]
           /\ reqs' = [reqs EXCEPT ![r] = [@ EXCEPT !.pc = "done", !.resp = wire]]
    /\ UNCHANGED <<now, cache, inflight, cacheMissSingleflight, microtasks, lastEviction,
                   closed, crashed, probe>>

\* sendJson(res, 502, { error: 'Bad Gateway', details: error.message })
BadGateway(message) == [status |-> 502, body |-> <<"error", "Bad Gateway", message>>]

\* Lines 277-282: the 'error' listener of the upstream request.  sendJson
\* assigns res.statusCode, then calls res.setHeader, which throws
\* ERR_HTTP_HEADERS_SENT once the header is flushed; nothing catches an
\* exception thrown by an event listener.
ImageError(r, message) ==
    /\ microtasks = <<>> /\ ~crashed
    /\ UpstreamOpen(r)
    /\ IF stream[r].headersSent
       THEN /\ stream' = [stream EXCEPT ![r] = [@ EXCEPT !.upstream = "failed",
                                                         !.piped = FALSE,
                                                         !.statusCode = 502]]
            /\ crashed' = TRUE
            /\ UNCHANGED reqs
       ELSE /\ stream' = [stream EXCEPT ![r] =
                              [@ EXCEPT !.upstream = "failed",
                                        !.piped = FALSE,
                                        !.statusCode = 502,
                                        !.headersSent = TRUE,
                                        !.writableEnded = TRUE,
                                        !.wire = IF r \in closed THEN @
                                                 ELSE BadGateway(message)]]
            /\ reqs' = [reqs EXCEPT ![r] = [@ EXCEPT !.pc = "done",
                                                     !.resp = BadGateway(message)]]
            /\ UNCHANGED crashed
    /\ UNCHANGED <<now, cache, inflight, cacheMissSingleflight, microtasks, lastEviction,
                   closed, probe>>

(* ------------------------------------------------- the client disconnects *)

OnCloseCancel(rs, r) == [rs EXCEPT ![r].pc = "done"]

\* Lines 474-479: the 'close' listener of the response marks the access log
\* aborted; it does not touch the handler, its fetch or the registry.
OnClose(rs, r) == rs

\* Readable.pipe unpipes a destination that closes; the source is paused, it is
\* neither destroyed nor drained.
Unpipe(st) == [st EXCEPT !.piped = FALSE]

\* The client of r goes away before its response has ended: while the handler
\* awaits a fetch, or while a media body is streamed.
Disconnect(r) ==
    /\ microtasks = <<>> /\ ~crashed
    /\ r \notin closed
    /\ \/ reqs[r].pc \in {"fetching", "waiting"}
       \/ reqs[r].pc = "image" /\ stream[r].upstream = "responding"
    /\ closed' = closed \cup {r}
    /\ reqs' = OnClose(reqs, r)
    /\ stream' = [stream EXCEPT ![r] = Unpipe(@)]
    /\ UNCHANGED <<now, cache, inflight, cacheMissSingleflight, microtasks, lastEviction,
                   crashed, probe>>

(* ------------------------------------ the specification with every route *)

RouteMethods == {"GET", "HEAD", "POST", "OPTIONS"}

AllPaths == {Root} \cup MediaPaths \cup {ApiPath(k) : k \in Keys}

\* The body of an upstream answer: a HEAD has none.
RouteBodies(m) == IF m = "HEAD" THEN {<<>>} ELSE {Pad("x", 1)}

Alive == ~crashed

NextRoute ==
    \/ \E r \in Reqs, m \in RouteMethods, p \in AllPaths : ArriveOptions(r, m, p)
    \/ \E r \in Reqs, m \in RouteMethods, p \in AllPaths : ArriveHealth(r, m, p)
    \/ \E r \in Reqs, m \in RouteMethods, p \in AllPaths : ArriveImage(r, m, p)
    \/ \E r \in Reqs, k \in Keys, m \in RouteMethods :
           Alive /\ Route(m, ApiPath(k)) = "api" /\ ArriveHit(r, k, m)
    \/ \E r \in Reqs, k \in Keys, m \in RouteMethods :
           Alive /\ Route(m, ApiPath(k)) = "api" /\ ArriveAttach(r, k, m)
    \/ \E r \in Reqs, k \in Keys, m \in RouteMethods :
           Alive /\ Route(m, ApiPath(k)) = "api" /\ ArriveOwner(r, k, m)
    \/ \E r \in Reqs, k \in Keys, m \in RouteMethods :
           Alive /\ Route(m, ApiPath(k)) = "api" /\ ArriveDirect(r, k, m)
    \/ \E r \in Reqs, status \in Statuses :
           \E data \in RouteBodies(reqs[r].method) :
               Alive /\ UpstreamReply(r, status, data)
    \/ \E r \in Reqs : Alive /\ UpstreamError(r, "ECONNRESET")
    \/ \E r \in Reqs : Alive /\ Finally(r)
    \/ \E q \in Reqs : Alive /\ Resume(q)
    \/ \E r \in Reqs, status \in Statuses : ImageResponse(r, status)
    \/ \E r \in Reqs : ImageEnd(r)
    \/ \E r \in Reqs : ImageError(r, "ECONNRESET")

SpecRoute == Init /\ [][NextRoute]_vars

(* ----------------------------------------------- the cache key (pure part) *)

\* A string is the sequence of its characters.  A header that is absent and a
\* header that is empty are both <<>>: the code tests `if (auth)`.
Sep == <<"|">>

AuthPrefix == <<"a", "u", "t", "h", "=">>

LangPrefix == <<"l", "a", "n", "g", "=">>

HashLen == 16

\* hashHeader: the first 16 hex digits of the SHA-256 of the value.  The digits
\* are symbolic: digit i of the digest of v.  Values that differ have digests
\* that differ (no collision among the values of the model).
hashHeader(value) == [i \in 1..HashLen |-> [sha256 |-> value, digit |-> i]]

\* Array.prototype.join
RECURSIVE Join(_, _)
Join(parts, sep) ==
    IF parts = <<>> THEN <<>>
    ELSE IF Len(parts) = 1 THEN parts[1]
    ELSE parts[1] \o sep \o Join(Tail(parts), sep)

buildCacheKeyNoAuth(pathAndSearch, authorization, acceptLanguage) ==
    Join(<<pathAndSearch>>
         \o (IF acceptLanguage # <<>> THEN <<LangPrefix \o acceptLanguage>> ELSE <<>>),
         Sep)

\* buildCacheKey(url, headers), with url.pathname + url.search and the two
\* headers it reads
buildCacheKey(pathAndSearch, authorization, acceptLanguage) ==
    Join(<<pathAndSearch>>
         \o (IF authorization # <<>> THEN <<AuthPrefix \o hashHeader(authorization)>>
             ELSE <<>>)
         \o (IF acceptLanguage # <<>> THEN <<LangPrefix \o acceptLanguage>> ELSE <<>>),
         Sep)

\* Two paths with a query, no or one of two credentials, no or one of two
\* languages.
KeyPaths == {<<"/", "3", "?", "a">>, <<"/", "3", "?", "b">>}

Credentials == {<<>>, <<"A">>, <<"B">>}

Languages == {<<>>, <<"e", "n">>, <<"d", "e">>}

KeyInputs == [path : KeyPaths, authorization : Credentials, acceptLanguage : Languages]

KeyOf(in) == buildCacheKey(in.path, in.authorization, in.acceptLanguage)

\* No key built yet, no lookup made yet.
NoKeys == [first |-> <<>>, second |-> <<>>, attached |-> "?", hit |-> "?"]

\* Two cacheable GETs, first and second, with any headers of the model.
InitKey ==
    /\ InitEngine
    /\ cacheMissSingleflight = TRUE
    /\ closed = {} /\ stream = [r \in Reqs |-> NoStream] /\ crashed = FALSE
    /\ probe \in {[fn |-> "buildCacheKey", args |-> <<a, b>>, result |-> NoKeys] :
                     a \in KeyInputs, b \in KeyInputs}

\* Line 293 of both requests.
BuildKeys ==
    /\ probe.fn = "buildCacheKey" /\ probe.result.first = <<>>
    /\ probe' = [probe EXCEPT !.result = [first |-> KeyOf(probe.args[1]),
                                           second |-> KeyOf(probe.args[2]),
                                           attached |-> "?", hit |-> "?"]]
    /\ UNCHANGED <<now, cache, inflight, cacheMissSingleflight, reqs, microtasks,
                   lastEviction, closed, stream, crashed>>

\* Line 366: the second request arrives while the fetch of the first is
\* registered under the first key; inflight.get(cacheKey) finds it or not.
SecondWhilePending ==
    /\ probe.fn = "buildCacheKey" /\ probe.result.first # <<>>
    /\ probe.result.attached = "?"
    /\ probe' = [probe EXCEPT !.result.attached =
                     IF probe.result.second = probe.result.first THEN "yes" ELSE "no"]
    /\ UNCHANGED <<now, cache, inflight, cacheMissSingleflight, reqs, microtasks,
                   lastEviction, closed, stream, crashed>>

\* Line 353: the answer of the first request is stored under the first key.
StoreFirst ==
    /\ probe.fn = "buildCacheKey" /\ probe.result.first # <<>>
    /\ probe.result.attached # "?" /\ cache = <<>>
    /\ cache' = Set(checkCacheSize(cache), probe.result.first, Pad("x", 1),
                    now + cacheDurationMs)
    /\ UNCHANGED <<now, inflight, cacheMissSingleflight, reqs, microtasks,
                   lastEviction, closed, stream, crashed, probe>>

\* Lines 298-300: the second request (again) looks its key up.
SecondAfterStore ==
    /\ probe.fn = "buildCacheKey" /\ probe.result.first # <<>>
    /\ cache # <<>> /\ probe.result.hit = "?"
    /\ probe' = [probe EXCEPT !.result.hit =
                     IF /\ Has(cache, probe.result.second)
                        /\ IsLive(Get(cache, probe.result.second), now)
                     THEN "yes" ELSE "no"]
    /\ UNCHANGED <<now, cache, inflight, cacheMissSingleflight, reqs, microtasks,
                   lastEviction, closed, stream, crashed>>

NextKey == BuildKeys \/ SecondWhilePending \/ StoreFirst \/ SecondAfterStore

SpecKey == InitKey /\ [][NextKey]_vars

\* Request targets as new URL() leaves them: '|' and '=' are percent-encoded
\* neither in a pathname nor in a search, so a target can hold the text that
\* buildCacheKey appends for a language.
SeparatorPaths ==
    {<<"/", "3">>,
     <<"/", "3">> \o Sep \o LangPrefix \o <<"e", "n">>,
     <<"/", "3", "?", "q", "=">>,
     <<"/", "3", "?", "q", "=">> \o Sep \o LangPrefix \o <<"d", "e">>}

KeyTriples == [path : SeparatorPaths, authorization : {<<>>, <<"A">>},
               acceptLanguage : Languages]

\* Two cacheable GETs, first and second, whose targets may hold a separator.
InitTriple ==
    /\ InitEngine
    /\ cacheMissSingleflight = TRUE
    /\ closed = {} /\ stream = [r \in Reqs |-> NoStream] /\ crashed = FALSE
    /\ probe \in {[fn |-> "buildCacheKey", args |-> <<a, b>>, result |-> NoKeys] :
                     a \in KeyTriples, b \in KeyTriples}

SpecTriple == InitTriple /\ [][NextKey]_vars

(* ------------------------------------- the api_key scrubbing (pure part) *)

ApiKey == <<"a", "p", "i", "_", "k", "e", "y">>

\* The characters of an api_key value in the model: a letter, a space, and
\* "ZW" for the zero-width space U+200B.
Invisible == {" ", "ZW"}

\* \p{Cf}
IsFormat(c) == c = "ZW"

\* \s
IsSpace(c) == c = " "

\* value.replace(/\p{Cf}/gu, '').replace(/\s+/gu, '')
sanitizeApiKeyValue(value) ==
    SelectSeq(SelectSeq(value, LAMBDA c : ~IsFormat(c)), LAMBDA c : ~IsSpace(c))

\* url.searchParams.getAll(name)
GetAll(query, name) ==
    LET params == SelectSeq(query, LAMBDA prm : prm.name = name)
    IN  [i \in 1..Len(params) |-> params[i].value]

\* sanitizeUrlSearchParams: the query it leaves in the url, and its result.
\* searchParams.delete removes every api_key, append puts each one last.
sanitizeUrlSearchParams(query) ==
    LET apiKeyValues == GetAll(query, ApiKey)
        sanitizedValues == [i \in 1..Len(apiKeyValues) |->
                               sanitizeApiKeyValue(apiKeyValues[i])]
        changed == \E i \in 1..Len(apiKeyValues) : sanitizedValues[i] # apiKeyValues[i]
    IN  IF apiKeyValues = <<>> \/ ~changed
        THEN [query |-> query, api_key_sanitized |-> FALSE]
        ELSE [query |-> SelectSeq(query, LAMBDA prm : prm.name # ApiKey)
                          \o [i \in 1..Len(sanitizedValues) |->
                                 [name |-> ApiKey, value |-> sanitizedValues[i]]],
              api_key_sanitized |-> TRUE]

\* url.search: "?" and the parameters name=value joined by "&"
Search(query) ==
    IF query = <<>> THEN <<>>
    ELSE <<"?">> \o Join([i \in 1..Len(query) |->
                             query[i].name \o <<"=">> \o query[i].value], <<"&">>)

Pathname == <<"/", "3">>

\* Values of api_key of one or two characters, and the other parameter x=v.
KeyValues ==
    {<<c>> : c \in {"k"} \cup Invisible}
        \cup {<<c, d>> : c \in {"k"} \cup Invisible, d \in {"k"} \cup Invisible}

Params == {[name |-> ApiKey, value |-> v] : v \in KeyValues}
              \cup {[name |-> <<"x">>, value |-> <<"v">>]}

MaxParams == 2

Queries == UNION {[1..n -> Params] : n \in 1..MaxParams}

\* The otherwise identical request: every api_key value without the
\* characters that are not visible, each parameter in its place.
Twin(query) ==
    [i \in 1..Len(query) |->
        IF query[i].name = ApiKey
        THEN [query[i] EXCEPT !.value = SelectSeq(@, LAMBDA c : c \notin Invisible)]
        ELSE query[i]]

NoSanitized == [sanitized |-> <<>>, requestPath |-> <<>>, cacheKey |-> <<>>]

\* A request with any query of the model, and its twin.
InitSanitize ==
    /\ InitEngine
    /\ cacheMissSingleflight = TRUE
    /\ closed = {} /\ stream = [r \in Reqs |-> NoStream] /\ crashed = FALSE
    /\ probe \in {[fn |-> "sanitizeUrlSearchParams", args |-> <<q, Twin(q)>>,
                    result |-> <<NoSanitized, NoSanitized>>] : q \in Queries}

\* Line 449, for the request and for its twin.
SanitizeBoth ==
    /\ probe.fn = "sanitizeUrlSearchParams"
    /\ probe.result[1].sanitized = <<>>
    /\ probe' = [probe EXCEPT !.result =
                     [i \in 1..2 |->
                         [NoSanitized EXCEPT
                             !.sanitized = <<sanitizeUrlSearchParams(probe.args[i])>>]]]
    /\ UNCHANGED <<now, cache, inflight, cacheMissSingleflight, reqs, microtasks,
                   lastEviction, closed, stream, crashed>>

\* Lines 289 and 293: the upstream path and the cache key, built from the url
\* that sanitizeUrlSearchParams left.
PathAndKeyOfBoth ==
    /\ probe.fn = "sanitizeUrlSearchParams"
    /\ probe.result[1].sanitized # <<>> /\ probe.result[1].requestPath = <<>>
    /\ probe' = [probe EXCEPT !.result =
                     [i \in 1..2 |->
                         LET requestPath ==
                                 Pathname \o Search(probe.result[i].sanitized[1].query)
                         IN  [probe.result[i] EXCEPT
                                 !.requestPath = requestPath,
                                 !.cacheKey = buildCacheKey(requestPath, <<>>, <<>>)]]]
    /\ UNCHANGED <<now, cache, inflight, cacheMissSingleflight, reqs, microtasks,
                   lastEviction, closed, stream, crashed>>

NextSanitize == SanitizeBoth \/ PathAndKeyOfBoth

SpecSanitize == InitSanitize /\ [][NextSanitize]_vars

(* --------------------------- coalesced fetches whose clients may go away *)

\* Coalescing is on, every request is a GET of the API.
InitDisconnect ==
    /\ InitEngine
    /\ cacheMissSingleflight = TRUE
    /\ InitExtra

\* The upstream call of r settles, one way or the other.
UpstreamSettles(r) ==
    \/ \E status \in Statuses, data \in Bodies : UpstreamReply(r, status, data)
    \/ \E message \in Messages : UpstreamError(r, message)

NextDisconnect ==
    \/ \E r \in Reqs, k \in Keys : ArriveHit(r, k, "GET")
    \/ \E r \in Reqs, k \in Keys : ArriveAttach(r, k, "GET")
    \/ \E r \in Reqs, k \in Keys : ArriveOwner(r, k, "GET")
    \/ \E r \in Reqs : UpstreamSettles(r)
    \/ \E r \in Reqs : Finally(r)
    \/ \E q \in Reqs : Resume(q)
    \/ \E r \in Reqs : Disconnect(r)

\* Every upstream call ends, with an answer or with an error of the transport;
\* the microtask queue is always drained.
FairDisconnect ==
    /\ \A r \in Reqs : WF_vars(UpstreamSettles(r))
    /\ WF_vars(\E r \in Reqs : Finally(r))
    /\ WF_vars(\E q \in Reqs : Resume(q))

SpecDisconnect == InitDisconnect /\ [][NextDisconnect]_vars /\ FairDisconnect

(* ------------------------------- media streams whose clients may go away *)

NextStream ==
    \/ \E r \in Reqs, p \in MediaPaths : ArriveImage(r, "GET", p)
    \/ \E r \in Reqs, status \in Statuses : ImageResponse(r, status)
    \/ \E r \in Reqs : ImageChunk(r)
    \/ \E r \in Reqs : ImageEnd(r)
    \/ \E r \in Reqs, message \in Messages : ImageError(r, message)
    \/ \E r \in Reqs : Disconnect(r)

\* Upstream answers every request and a body that is being piped arrives to
\* its end; transport errors and disconnects may or may not happen.
FairStream ==
    \A r \in Reqs :
        /\ WF_vars(\E status \in Statuses : ImageResponse(r, status))
        /\ WF_vars(ImageChunk(r))
        /\ WF_vars(ImageEnd(r))

SpecStream == InitDisconnect /\ [][NextStream]_vars /\ FairStream

(* ------------------------------------ more keys than the cache may hold *)

InitSize ==
    /\ InitEngine
    /\ cacheMissSingleflight \in BOOLEAN
    /\ InitExtra

\* Every request is a GET answered 200 with a short body, so every fetch stores.
NextSize ==
    \/ \E r \in Reqs, k \in SizeKeys : ArriveHit(r, k, "GET")
    \/ \E r \in Reqs, k \in SizeKeys : ArriveAttach(r, k, "GET")
    \/ \E r \in Reqs, k \in SizeKeys : ArriveOwner(r, k, "GET")
    \/ \E r \in Reqs, k \in SizeKeys : ArriveDirect(r, k, "GET")
    \/ \E r \in Reqs : UpstreamReply(r, 200, Pad("x", 1))
    \/ \E r \in Reqs : Finally(r)
    \/ \E q \in Reqs : Resume(q)
    \/ Sweep
    \/ Tick

SpecSize == InitSize /\ [][NextSize]_vars

(* ---------------------------- the cache with and without the sweep *)

\* MAX_CACHE_SIZE = 2 for the comparison of the two caches.
SweepMaxCacheSize == 2

MaxSweepReqs == 6

SweepBodies == {Pad("x", 1), Pad("y", 1)}

\* Two keys more than the limit: eviction needs limit + 1 entries and one more
\* fetch in flight.
SweepKeys == 1..(SweepMaxCacheSize + 2)

\* cache.has(cacheKey) and Date.now() < cachedData.expiry, on a given cache
HitIn(c, k) == Has(c, k) /\ IsLive(Get(c, k), now)

\* Lines 298-307 on a given cache: an entry found expired is deleted.
AfterLookupIn(c, k) == IF Has(c, k) /\ ~HitIn(c, k) THEN Delete(c, k) ELSE c

\* Lines 352-353 on a given cache
StoreIn(c, k, data) ==
    Set(checkCacheSizeAt(c, SweepMaxCacheSize), k, data, now + cacheDurationMs)

\* The server whose timer never fires, fed the same requests and the same
\* upstream answers: its cache (unswept); per key the fetches in flight, the
\* same in both servers while they agree; the number of requests and of keys
\* so far (keys are numbered as they are first requested); whether some
\* eviction removed an entry; whether every decision and every answer has been
\* the same so far.
NoSweepState == [unswept |-> <<>>, pending |-> [k \in SweepKeys |-> 0], served |-> 0,
                 keys |-> 0, evicted |-> "no", agree |-> "yes"]

InitSweep ==
    /\ InitEngine
    /\ cacheMissSingleflight \in BOOLEAN
    /\ closed = {} /\ stream = [r \in Reqs |-> NoStream] /\ crashed = FALSE
    /\ probe = [fn |-> "cleanExpiredCache", args |-> <<>>, result |-> NoSweepState]

\* A cacheable GET of k arrives at both servers (lines 298-307, 365-399,
\* 415-420): each looks k up in its own cache.  A hit is answered from the
\* entry; a miss attaches to the fetch in flight (coalescing) or starts one.
SweepGet(k) ==
    LET s == probe.result
        hit == HitIn(cache, k)
        hitUnswept == HitIn(s.unswept, k)
        same == /\ hit = hitUnswept
                /\ hit => HitReply(Get(cache, k)) = HitReply(Get(s.unswept, k))
    IN  /\ probe.fn = "cleanExpiredCache"
        /\ s.agree = "yes" /\ s.served < MaxSweepReqs
        /\ k <= s.keys + 1
        /\ cache' = IF same THEN AfterLookupIn(cache, k) ELSE cache
        /\ probe' = [probe EXCEPT !.result =
               IF ~same THEN [s EXCEPT !.agree = "no", !.served = @ + 1]
               ELSE [s EXCEPT !.served = @ + 1,
                              !.keys = IF k > @ THEN k ELSE @,
                              !.unswept = AfterLookupIn(s.unswept, k),
                              !.pending[k] =
                                  IF hit \/ (cacheMissSingleflight /\ @ > 0) THEN @
                                  ELSE @ + 1]]
        /\ UNCHANGED <<now, inflight, cacheMissSingleflight, reqs, microtasks,
                       lastEviction, closed, stream, crashed>>

\* Lines 327-362: a fetch of k is answered 200 with a body that fits; both
\* servers run checkCacheSize and cache.set.
SweepReply(k, data) ==
    LET s == probe.result
    IN  /\ probe.fn = "cleanExpiredCache"
        /\ s.agree = "yes" /\ s.pending[k] > 0
        /\ cache' = StoreIn(cache, k, data)
        /\ probe' = [probe EXCEPT !.result =
               [s EXCEPT !.unswept = StoreIn(s.unswept, k, data),
                         !.pending[k] = @ - 1,
                         !.evicted =
                             IF \/ Len(cache) > SweepMaxCacheSize
                                \/ Len(s.unswept) > SweepMaxCacheSize
                             THEN "yes" ELSE @]]
        /\ UNCHANGED <<now, inflight, cacheMissSingleflight, reqs, microtasks,
                       lastEviction, closed, stream, crashed>>

NextSweep ==
    \/ \E k \in SweepKeys : SweepGet(k)
    \/ \E k \in SweepKeys, data \in SweepBodies : SweepReply(k, data)
    \/ Sweep
    \/ Tick

SpecSweep == InitSweep /\ [][NextSweep]_vars

(* ------------------------------------ the handler and its access log *)

\* Request targets for which new URL(req.url, 'http://localhost') throws: '//'
\* has an empty host.
InvalidTargets == {<<"/", "/">>}

\* The catch of http.createServer: res.statusCode = 500 and
\* res.end(JSON.stringify({ error: 'Internal Server Error' }))
InternalServerError == [status |-> 500, body |-> <<"error", "Internal Server Error">>]

\* Line 448 throws: the handler's promise rejects before any listener is
\* registered and before any branch is taken; the server's catch answers.
HandleMalformed(r, m, target) ==
    /\ CanArrive(r, 1) /\ ~crashed
    /\ target \in InvalidTargets
    /\ reqs' = [reqs EXCEPT ![r] = [@ EXCEPT !.pc = "done", !.method = m,
                                             !.resp = InternalServerError]]
    /\ stream' = [stream EXCEPT ![r] =
                      EndResponse([@ EXCEPT !.route = "invalid", !.path = target],
                                  InternalServerError.status, InternalServerError.body)]
    /\ UNCHANGED <<now, cache, inflight, cacheMissSingleflight, microtasks, lastEviction,
                   closed, crashed, probe>>

\* Lines 473-479 have run: the handler got past new URL().
Listening(r) == reqs[r].pc # "new" /\ stream[r].route # "invalid"

\* res.writableEnded: res.end() was called, by a branch of the handler, by
\* sendJson of the API or by the pipe of a media body.
WritableEnded(r) ==
    stream[r].writableEnded \/ (stream[r].route = "" /\ reqs[r].pc = "done")

\* Per response: accessLogged, the access-log lines written, whether 'finish'
\* was emitted, and whether 'close' was emitted before or after res.end().
NoAccess == [accessLogged |-> FALSE, lines |-> <<>>, finish |-> FALSE, close |-> "no"]

\* Lines 463-471
emitAccessLog(a, event) ==
    IF a.accessLogged THEN a
    ELSE [a EXCEPT !.accessLogged = TRUE, !.lines = Append(@, event)]

\* Line 473: 'finish' is emitted for a response that was ended.  Whether the
\* runtime still emits it once the socket is gone is left open: it may.
ResFinish(r) ==
    /\ microtasks = <<>> /\ ~crashed
    /\ probe.fn = "emitAccessLog"
    /\ WritableEnded(r) /\ ~probe.result[r].finish
    /\ probe' = [probe EXCEPT !.result[r] =
                     IF Listening(r)
                     THEN emitAccessLog([@ EXCEPT !.finish = TRUE], "request.end")
                     ELSE [@ EXCEPT !.finish = TRUE]]
    /\ UNCHANGED <<now, cache, inflight, cacheMissSingleflight, reqs, microtasks,
                   lastEviction, closed, stream, crashed>>

\* Lines 474-479: the socket of r closes, after the response or before its end.
ResClose(r) ==
    /\ microtasks = <<>> /\ ~crashed
    /\ probe.fn = "emitAccessLog"
    /\ reqs[r].pc # "new" /\ probe.result[r].close = "no"
    /\ closed' = closed \cup {r}
    /\ reqs' = OnClose(reqs, r)
    /\ stream' = [stream EXCEPT ![r] = Unpipe(@)]
    /\ probe' = [probe EXCEPT !.result[r] =
                     LET a == [@ EXCEPT !.close = IF WritableEnded(r) THEN "after_end"
                                                  ELSE "before_end"]
                     IN  IF Listening(r) /\ ~a.accessLogged /\ ~WritableEnded(r)
                         THEN emitAccessLog(a, "request.aborted")
                         ELSE a]
    /\ UNCHANGED <<now, cache, inflight, cacheMissSingleflight, microtasks, lastEviction,
                   crashed>>

InitAccess ==
    /\ InitEngine
    /\ cacheMissSingleflight = FALSE
    /\ closed = {} /\ stream = [r \in Reqs |-> NoStream] /\ crashed = FALSE
    /\ probe = [fn |-> "emitAccessLog", args |-> <<>>,
                result |-> [r \in Reqs |-> NoAccess]]

AccessMethods == {"GET", "OPTIONS"}

AccessPaths == {Root, ApiPath(1)} \cup MediaPaths

NextAccess ==
    \/ \E r \in Reqs, m \in AccessMethods, t \in InvalidTargets : HandleMalformed(r, m, t)
    \/ \E r \in Reqs, m \in AccessMethods, p \in AccessPaths : ArriveOptions(r, m, p)
    \/ \E r \in Reqs, m \in AccessMethods, p \in AccessPaths : ArriveHealth(r, m, p)
    \/ \E r \in Reqs, m \in AccessMethods, p \in AccessPaths : ArriveImage(r, m, p)
    \/ \E r \in Reqs : Alive /\ ArriveHit(r, 1, "GET")
    \/ \E r \in Reqs : Alive /\ ArriveDirect(r, 1, "GET")
    \/ \E r \in Reqs : Alive /\ UpstreamReply(r, 200, Pad("x", 1))
    \/ \E r \in Reqs : Alive /\ UpstreamError(r, "ECONNRESET")
    \/ \E q \in Reqs : Alive /\ Resume(q)
    \/ \E r \in Reqs : ImageResponse(r, 200)
    \/ \E r \in Reqs : ImageEnd(r)
    \/ \E r \in Reqs : ImageError(r, "ECONNRESET")
    \/ \E r \in Reqs : ResFinish(r)
    \/ \E r \in Reqs : ResClose(r)

SpecAccess == InitAccess /\ [][NextAccess]_vars

(* ================================================================ claims *)

Cacheable(r) == reqs[r].pc # "new" /\ isCacheableRequest(reqs[r].method)

\* The requests awaiting the promise of owner o, the owner included.
Group(o) == {q \in Reqs : reqs[q].awaits = o}

Waiters(o) == Group(o) \ {o}

\* C1: with coalescing on, at most one upstream fetch is in progress per cache
\* key, and of the cacheable requests awaiting one coalesced fetch exactly one,
\* the owner, started an upstream fetch.
C1_OneFetchPerKey ==
    cacheMissSingleflight =>
        /\ \A k \in Keys :
               Cardinality({r \in Reqs : /\ Cacheable(r)
                                         /\ reqs[r].key = k
                                         /\ reqs[r].pc = "fetching"}) <= 1
        /\ \A o \in Reqs :
               Cacheable(o) /\ Group(o) # {}
                   => {q \in Group(o) : reqs[q].fetched} = {o}

\* C1 witness: three cacheable requests for one key, one fetching, two waiting.
C1_Witness ==
    /\ cacheMissSingleflight
    /\ \E o \in Reqs :
           /\ reqs[o].pc = "fetching"
           /\ Cardinality({q \in Waiters(o) : reqs[q].pc = "waiting"}) >= 2

\* C2: a request attached to a pending coordinated fetch starts no upstream
\* fetch, and once answered it has the status and the body of the owner's
\* answer, whatever the upstream status and the cache disposition.
C2_WaiterGetsOwnersAnswer ==
    \A o \in Reqs : \A q \in Waiters(o) :
        /\ ~reqs[q].fetched
        /\ reqs[q].pc \in {"waiting", "done"}
        /\ reqs[q].pc = "done"
               => /\ reqs[o].pc = "done"
                  /\ reqs[q].resp.status = reqs[o].resp.status
                  /\ reqs[q].resp.body = reqs[o].resp.body

\* C2 witness: a waiter answered with an uncached 404.
C2_Witness ==
    \E o \in Reqs : \E q \in Waiters(o) :
        /\ reqs[q].pc = "done"
        /\ reqs[q].resp.status = 404
        /\ reqs[q].ctx_cache = "skip_status"

\* C3: a key is in the in-flight registry exactly while its coordinated fetch
\* is pending: it is registered when the fetch starts, and removed by the first
\* reaction to the fetch settling, by success or failure; between macrotasks no
\* settled fetch is registered, so the next miss starts a fetch of its own.
C3_RegistryHoldsPendingOnly ==
    /\ \A k \in Keys :
           inflight[k] # 0 =>
               LET o == inflight[k]
               IN  /\ reqs[o].key = k
                   /\ \/ reqs[o].pc = "fetching"
                      \/ /\ reqs[o].pc = "settled"
                         /\ microtasks # <<>>
                         /\ Head(microtasks) = [kind |-> "finally", req |-> o]
    /\ \A r \in Reqs :
           reqs[r].pc = "fetching" /\ reqs[r].ctx_singleflight = "miss"
               => inflight[reqs[r].key] = r

\* C3 witness: after a failed coordinated fetch, with two waiters, a later
\* request for the key owns a fetch of its own.
C3_Witness ==
    \E o, r \in Reqs :
        /\ o < r
        /\ reqs[o].key = reqs[r].key
        /\ reqs[o].shared.kind = "err"
        /\ reqs[o].ctx_singleflight = "miss"
        /\ reqs[o].pc = "done"
        /\ Waiters(o) # {}
        /\ reqs[r].ctx_singleflight = "miss"
        /\ reqs[r].pc = "fetching"

\* C4: when a coordinated fetch fails with a transport error, the owner and
\* every waiter are answered with the same error status and message, none
\* with a success, and none is still waiting once the reactions have run.
C4_FailureReplayedToAll ==
    \A o \in Reqs :
        reqs[o].ctx_singleflight = "miss" /\ reqs[o].shared.kind = "err" =>
            \A q \in Group(o) :
                /\ reqs[q].pc = "done"
                       => /\ reqs[q].resp.status = 500
                          /\ reqs[q].resp.body = <<"error", reqs[o].shared.message>>
                /\ microtasks = <<>> => reqs[q].pc = "done"

\* C4 witness: a failed coordinated fetch with two waiters, all answered.
C4_Witness ==
    \E o \in Reqs :
        /\ reqs[o].shared.kind = "err"
        /\ Cardinality(Waiters(o)) >= 2
        /\ \A q \in Group(o) : reqs[q].pc = "done"

\* C5: the cache never holds more than maxCacheSize entries.
C5_SizeWithinLimit == Len(cache) <= maxCacheSize

\* C6: when checkCacheSize deletes entries, every deleted entry expires no
\* later than every entry it keeps, and it keeps exactly maxCacheSize entries.
C6_EvictsSoonestExpiry ==
    lastEviction.removed # <<>> =>
        /\ \A i \in 1..Len(lastEviction.removed) : \A j \in 1..Len(lastEviction.kept) :
               lastEviction.removed[i].expiry <= lastEviction.kept[j].expiry
        /\ Len(lastEviction.kept) = maxCacheSize

\* C6 witness: an eviction that chose between entries of different expiry.
C6_Witness ==
    /\ lastEviction.removed # <<>>
    /\ \E i \in 1..Len(lastEviction.removed) : \E j \in 1..Len(lastEviction.kept) :
           lastEviction.removed[i].expiry < lastEviction.kept[j].expiry

\* The step is the arrival of request r, cacheable, for key k.
ArrivesFor(r, k) ==
    /\ reqs[r].pc = "new"
    /\ reqs'[r].pc # "new"
    /\ reqs'[r].key = k
    /\ isCacheableRequest(reqs'[r].method)

\* C7: a request is answered from the cache only with an entry of its key that
\* has not expired: now <= expiry at the lookup.
C7_HitOnlyFromLiveEntry ==
    [][\A r \in Reqs : \A k \in Keys :
           ArrivesFor(r, k) /\ reqs'[r].ctx_cache = "hit"
               => /\ Has(cache, k)
                  /\ now <= Get(cache, k).expiry
                  /\ reqs'[r].resp = [status |-> 200, body |-> Get(cache, k).data]]_vars

\* C7 witness: a request answered from the cache while an expired entry of
\* another key is still in the cache (no sweep has removed it).
C7_Witness ==
    \E r \in Reqs :
        /\ reqs[r].pc = "done"
        /\ reqs[r].ctx_cache = "hit"
        /\ \E i \in 1..Len(cache) : now > cache[i].expiry

\* C8: a lookup that finds an entry serves it at every time t <= expiry, and
\* at t > expiry deletes it and fetches afresh.
C8_PresentUntilExpiry ==
    [][\A r \in Reqs : \A k \in Keys :
           ArrivesFor(r, k) /\ Has(cache, k)
               => /\ now <= Get(cache, k).expiry => reqs'[r].ctx_cache = "hit"
                  /\ now > Get(cache, k).expiry
                         => /\ reqs'[r].ctx_cache # "hit"
                            /\ ~Has(cache', k)
                            /\ reqs'[r].fetched]_vars

\* C9 as claimed: a cacheable request that arrives within the TTL window of an
\* earlier identical request whose answer was stored is answered with the same
\* body without an upstream fetch.  (Before cacheDurationMs has passed on the
\* clock, every earlier answer is within the window.)
C9_SecondWithinTtlRepeatsFirst ==
    [][\A r1, r2 \in Reqs : \A k \in Keys :
           /\ ArrivesFor(r2, k)
           /\ reqs[r1].pc = "done" /\ reqs[r1].key = k
           /\ reqs[r1].ctx_cache = "store"
           /\ now < cacheDurationMs
           => /\ ~reqs'[r2].fetched
              /\ reqs'[r2].pc = "done"
              /\ reqs'[r2].resp.body = reqs[r1].resp.body]_vars

\* C9 amended: a cacheable request that arrives while the cache holds an entry
\* of its key with now < expiry is answered 200 at once, without an upstream
\* fetch, with the stored body, which is byte for byte the body an earlier
\* identical request received with status 200 and stored.
C9_HitRepeatsStoredBody ==
    [][\A r2 \in Reqs : \A k \in Keys :
           ArrivesFor(r2, k) /\ Has(cache, k) /\ now < Get(cache, k).expiry
               => /\ ~reqs'[r2].fetched
                  /\ reqs'[r2].pc = "done"
                  /\ reqs'[r2].resp = [status |-> 200, body |-> Get(cache, k).data]
                  /\ \E r1 \in Reqs \ {r2} :
                         /\ reqs[r1].pc = "done" /\ reqs[r1].key = k
                         /\ isCacheableRequest(reqs[r1].method)
                         /\ reqs[r1].shared.cache_result = "store"
                         /\ reqs[r1].resp.status = 200
                         /\ reqs[r1].resp.body = reqs'[r2].resp.body]_vars

\* C9 witness: a request answered from the cache with the body and status of
\* an earlier identical request that fetched and stored it.
C9_Witness ==
    \E r1, r2 \in Reqs :
        /\ r1 < r2
        /\ reqs[r1].key = reqs[r2].key
        /\ reqs[r1].pc = "done" /\ reqs[r1].ctx_cache = "store"
        /\ reqs[r2].pc = "done" /\ reqs[r2].ctx_cache = "hit"
        /\ ~reqs[r2].fetched
        /\ reqs[r2].resp = reqs[r1].resp

Oversize(data) == SizeBytes(data) > maxCacheBodyBytes

Settles(r) == reqs[r].pc = "fetching" /\ reqs'[r].pc = "settled"

Upstream(q) == reqs[reqs[q].awaits].shared

Bypasses(rq, st) == st.route = "image" \/ (rq.key # 0 /\ rq.method # "GET")

\* C14: a request routed to the media path, or to the API with a method other
\* than GET (HEAD included), contacts upstream, and no step of it changes the
\* cache or the registry: it is never answered from the cache, never inserts,
\* deletes or evicts, never awaits another request's fetch, never registers,
\* also when an entry or a pending fetch exists for its path and query.
C14_BypassLeavesCacheAndRegistry ==
    [][\A r \in Reqs :
          Bypasses(reqs'[r], stream'[r]) /\ <<reqs'[r], stream'[r]>> # <<reqs[r], stream[r]>>
              => /\ cache' = cache
                 /\ inflight' = inflight
                 /\ reqs'[r].fetched
                 /\ reqs'[r].awaits \in {0, r}
                 /\ reqs'[r].ctx_cache \in {"", "bypass"}
                 /\ \A k \in Keys : inflight'[k] # r]_vars

\* A GET stored the answer for a key; a POST or HEAD of that key fetched its
\* own answer and the entry is as the GET stored it; a media request was
\* answered by upstream.
C14_Witness ==
    \E g, b, i \in Reqs :
        /\ g < b
        /\ reqs[g].method = "GET" /\ reqs[g].pc = "done"
        /\ reqs[g].shared.cache_result = "store"
        /\ reqs[b].method \in {"POST", "HEAD"} /\ reqs[b].key = reqs[g].key
        /\ reqs[b].pc = "done" /\ reqs[b].fetched /\ reqs[b].ctx_cache = "bypass"
        /\ reqs[b].resp.status = 404
        /\ Has(cache, reqs[g].key) /\ Get(cache, reqs[g].key).data = reqs[g].shared.data
        /\ stream[i].route = "image" /\ reqs[i].pc = "done" /\ reqs[i].fetched
        /\ stream[i].upstream = "ended"

\* The branch a routed request took, and the path it asked for.
BranchTaken(rq, st) == IF rq.key # 0 THEN "api" ELSE st.route

PathOf(rq, st) == IF rq.key # 0 THEN ApiPath(rq.key) ELSE st.path

\* C15: an arriving request takes one branch, the first that matches in the
\* order OPTIONS, root path, media prefix, API; an OPTIONS request (on any path,
\* media paths included) and a root request are answered at once with 200,
\* contact no upstream and leave the cache and the registry as they were.
C15_FirstMatchingBranch ==
    [][\A r \in Reqs :
          reqs[r].pc = "new" /\ reqs'[r].pc # "new"
              => LET m == reqs'[r].method
                     p == PathOf(reqs'[r], stream'[r])
                     branch == BranchTaken(reqs'[r], stream'[r])
                 IN  /\ m = "OPTIONS" => branch = "options"
                     /\ m # "OPTIONS" /\ p = Root => branch = "health"
                     /\ m # "OPTIONS" /\ p \in MediaPaths => branch = "image"
                     /\ m # "OPTIONS" /\ p \notin MediaPaths \cup {Root} => branch = "api"
                     /\ branch \in {"options", "health"}
                            => /\ reqs'[r].pc = "done"
                               /\ reqs'[r].resp.status = 200
                               /\ stream'[r].wire.status = 200
                               /\ stream'[r].writableEnded
                               /\ ~reqs'[r].fetched
                               /\ stream'[r].upstream = "none"
                               /\ cache' = cache /\ inflight' = inflight
                     /\ branch = "options" => reqs'[r].resp.body = <<>>]_vars

\* OPTIONS on a media path and OPTIONS on an API path were answered 200 with no
\* body and no upstream contact, and a POST of the root path got the health
\* payload.
C15_Witness ==
    \E a, b, h \in Reqs :
        /\ reqs[a].method = "OPTIONS" /\ stream[a].path \in MediaPaths
        /\ reqs[a].pc = "done" /\ reqs[a].resp = [status |-> 200, body |-> <<>>]
        /\ ~reqs[a].fetched /\ stream[a].upstream = "none"
        /\ reqs[b].method = "OPTIONS" /\ stream[b].path = ApiPath(1)
        /\ reqs[b].pc = "done" /\ ~reqs[b].fetched
        /\ reqs[h].method = "POST" /\ stream[h].path = Root
        /\ reqs[h].pc = "done" /\ reqs[h].resp = [status |-> 200, body |-> HealthBody]
        /\ ~reqs[h].fetched

\* The upstream call of q failed at connection level: axios rejected, or the
\* upstream media request emitted 'error'.
TransportFailed(q) ==
    \/ reqs[q].awaits # 0 /\ Upstream(q).kind = "err"
    \/ stream[q].route = "image" /\ stream[q].upstream = "failed"

\* C13: a request whose upstream call failed at connection level is answered
\* 502, on the media path and on the API path alike.
C13_TransportFailureIs502 ==
    \A q \in Reqs :
        reqs[q].pc = "done" /\ TransportFailed(q) => reqs[q].resp.status = 502

\* C16: of two cacheable requests for the same path and query, two that differ
\* in the credential header value or in the language header value have
\* different cache keys, so the second neither attaches to the pending fetch of
\* the first nor is served the entry the first stored; two that agree in path,
\* query, credential and language have one key, attach and are served.
C16_KeySeparatesCredentialAndLanguage ==
    probe.fn = "buildCacheKey" /\ probe.result.first # <<>> =>
        LET a == probe.args[1]
            b == probe.args[2]
            res == probe.result
        IN  /\ a.path = b.path /\ (a.authorization # b.authorization
                                    \/ a.acceptLanguage # b.acceptLanguage)
                   => /\ res.first # res.second
                      /\ res.attached # "yes"
                      /\ res.hit # "yes"
            /\ a = b => /\ res.first = res.second
                        /\ res.attached # "no"
                        /\ res.hit # "no"

\* Same path, query and language, credentials A and B: the second request found
\* neither the pending fetch nor the stored entry of the first.
C16_Witness ==
    /\ probe.fn = "buildCacheKey" /\ probe.result.first # <<>>
    /\ probe.args[1].path = probe.args[2].path
    /\ probe.args[1].acceptLanguage = probe.args[2].acceptLanguage
    /\ probe.args[1].authorization = <<"A">> /\ probe.args[2].authorization = <<"B">>
    /\ probe.result.attached = "no" /\ probe.result.hit = "no"
    /\ Has(cache, probe.result.first)

\* C17: a request whose api_key values carry invisible or whitespace characters
\* gets the cache key and the upstream path of the otherwise identical request
\* with the clean api_key, wherever api_key stands among the parameters, and
\* api_key_sanitized is true exactly when some api_key value was changed.
C17_ScrubbedRequestEqualsCleanTwin ==
    probe.fn = "sanitizeUrlSearchParams" /\ probe.result[1].requestPath # <<>> =>
        /\ probe.result[1].cacheKey = probe.result[2].cacheKey
        /\ probe.result[1].requestPath = probe.result[2].requestPath
        /\ probe.result[1].sanitized[1].api_key_sanitized
               <=> probe.args[1] # probe.args[2]
        /\ ~probe.result[2].sanitized[1].api_key_sanitized

\* The coalesced fetch of owner o has run to its end: the key is unregistered
\* and every request that awaited it is answered from its outcome; an answer
\* of 200 within the size limit is in the cache.
CoalescedFetchCompleted(o) ==
    LET shared == reqs[o].shared
    IN  /\ reqs[o].key # 0 /\ inflight[reqs[o].key] # o
        /\ shared.kind # "none"
        /\ \A q \in Group(o) :
               /\ reqs[q].pc = "done"
               /\ reqs[q].resp = IF shared.kind = "ok" THEN ReplyFromShared(shared)
                                  ELSE ReplyFromError(shared)
        /\ shared.kind = "ok" /\ shared.status = 200 /\ ~Oversize(shared.data)
               => /\ shared.cache_result = "store"
                  /\ Has(cache, reqs[o].key)
                  /\ Get(cache, reqs[o].key).data = shared.data

\* C18: when the client of the owner or of a waiter goes away while a coalesced
\* fetch is pending, the fetch is not cancelled: it settles, a 200 answer
\* within the size limit is stored, every request awaiting it is answered with
\* the outcome, and the key leaves the registry.
C18_DisconnectDoesNotCancelFetch ==
    \A o \in Reqs :
        (reqs[o].key # 0 /\ inflight[reqs[o].key] = o /\ Group(o) \cap closed # {})
            ~> CoalescedFetchCompleted(o)

\* The owner's client went away during the fetch; the fetch was answered 200,
\* the answer is stored, the key is unregistered and a waiter whose client
\* stayed got the answer.
C18_Witness ==
    \E o, w \in Reqs :
        /\ o \in closed /\ w \notin closed /\ w \in Waiters(o)
        /\ reqs[o].shared.status = 200 /\ reqs[o].shared.cache_result = "store"
        /\ CoalescedFetchCompleted(o)
        /\ reqs[w].resp = [status |-> 200, body |-> reqs[o].shared.data]

\* C19: when the client goes away while a media response is streamed, the
\* upstream request of that stream is eventually aborted: no upstream media
\* request stays open once its client has gone.
C19_DisconnectAbortsUpstream ==
    \A r \in Reqs :
        (r \in closed /\ stream[r].route = "image" /\ UpstreamOpen(r))
            ~> (~UpstreamOpen(r) \/ crashed)

\* C20: when the upstream media request fails after the status and the headers
\* were flushed to the client, what the client has received stays as it is
\* (no other status, no header, no error body) and the process keeps running.
C20_LateErrorOnlyEndsStream ==
    [][\A r \in Reqs :
          UpstreamOpen(r) /\ stream'[r].upstream = "failed" /\ stream[r].headersSent
              => /\ stream'[r].wire = stream[r].wire
                 /\ ~crashed']_vars

\* C24: the cache never holds more than maxCacheSize + 1 entries, and when a
\* fetch stores its answer the entries other than the one it writes are at
\* most maxCacheSize: checkCacheSize ran just before the insert.  This holds
\* for every order in which concurrent fetches complete.
C24_SizeAtMostLimitPlusOne ==
    [][/\ Len(cache') <= maxCacheSize + 1
       /\ \A r \in Reqs :
              Settles(r) /\ reqs'[r].shared.cache_result = "store"
                  => Len(Delete(cache', reqs[r].key)) <= maxCacheSize]_vars

\* The cache holds maxCacheSize + 1 entries after three keys were stored: the
\* last store first evicted down to maxCacheSize.
C24_Witness ==
    /\ Len(cache) = maxCacheSize + 1
    /\ lastEviction.removed # <<>>
    /\ Len(lastEviction.kept) = maxCacheSize
    /\ Cardinality({reqs[r].key : r \in {q \in Reqs :
                        reqs[q].shared.cache_result = "store"}}) = maxCacheSize + 2

\* C25: with coalescing on, whenever a handler can start (no promise reaction
\* is pending) no key is both registered and in the cache: a key is registered
\* only when the lookup left no entry for it, and the store of the fetch and
\* its unregistration are not separated by any other handler.  With coalescing
\* off the registry is always empty.
C25_RegisteredKeyNotCached ==
    /\ ~cacheMissSingleflight => \A k \in Keys : inflight[k] = 0
    /\ cacheMissSingleflight /\ microtasks = <<>>
           => \A k \in Keys : ~(inflight[k] # 0 /\ Has(cache, k))

\* A key whose entry was stored earlier and has expired is registered again for
\* a new fetch, and the cache no longer holds it.
C25_Witness ==
    /\ cacheMissSingleflight /\ microtasks = <<>>
    /\ \E r, o \in Reqs :
           /\ r < o /\ reqs[r].key = reqs[o].key
           /\ reqs[r].pc = "done" /\ reqs[r].shared.cache_result = "store"
           /\ reqs[o].pc = "fetching" /\ inflight[reqs[o].key] = o
           /\ ~Has(cache, reqs[o].key)
           /\ \A q \in Reqs : reqs[q].key \in {0, reqs[o].key}
           /\ now > cacheDurationMs

\* C27: no entry ever expires later than the current time plus
\* cacheDurationMs, whichever fetch wrote it last; an entry is written with
\* expiry = time of the store + cacheDurationMs, so the body a hit serves was
\* stored less than cacheDurationMs before the hit.
C27_ExpiryWithinTtl ==
    [][/\ \A i \in 1..Len(cache') : cache'[i].expiry <= now' + cacheDurationMs
       /\ \A r \in Reqs :
              reqs[r].pc = "new" /\ reqs'[r].ctx_cache = "hit"
                  => LET e == Get(cache, reqs'[r].key)
                     IN  /\ reqs'[r].resp.body = e.data
                         /\ now - (e.expiry - cacheDurationMs) < cacheDurationMs]_vars

\* Coalescing is off, two fetches of one key have both stored, the second
\* over the entry of the first, and a later request is served that entry at a
\* time when the first fetch's entry would have expired.
C27_Witness ==
    /\ ~cacheMissSingleflight
    /\ \E r, q, h \in Reqs :
           /\ r < q /\ q < h
           /\ reqs[r].key = reqs[q].key /\ reqs[q].key = reqs[h].key
           /\ reqs[r].shared.cache_result = "store"
           /\ reqs[q].shared.cache_result = "store"
           /\ reqs[h].ctx_cache = "hit"
           /\ Has(cache, reqs[h].key)
           /\ Get(cache, reqs[h].key).expiry = now + 1
           /\ now = cacheDurationMs

\* C26: two requests whose (path and query, credential, language) differ get
\* different cache keys, also when the path or the query holds '|' or 'lang='.
C26_KeyInjectiveOnTriples ==
    probe.fn = "buildCacheKey" /\ probe.result.first # <<>>
        /\ probe.args[1] # probe.args[2]
        => probe.result.first # probe.result.second

\* C22: a request whose URL does not parse is answered with a 4xx status,
\* contacts no upstream, leaves the cache and the registry as they were, and
\* the process goes on serving.
C22_MalformedUrlIsBadRequest ==
    [][\A r \in Reqs :
           stream[r].route = "" /\ stream'[r].route = "invalid"
               => /\ stream'[r].wire.status \in 400..499
                  /\ ~reqs'[r].fetched
                  /\ cache' = cache /\ inflight' = inflight
                  /\ ~crashed']_vars

\* C23: once the response of a request has finished or its connection has
\* closed, the access log holds exactly one line for it: 'request.aborted' if
\* the connection closed before the response was ended, 'request.end'
\* otherwise.  (A response that was ended, then lost its connection, and for
\* which 'finish' has not been emitted, is not judged.)
C23_ExactlyOneAccessLogLine ==
    probe.fn = "emitAccessLog"
        => \A r \in Reqs :
               LET a == probe.result[r]
               IN  (a.finish \/ a.close # "no") /\ ~(a.close = "after_end" /\ ~a.finish)
                       => a.lines = <<IF a.close = "before_end" THEN "request.aborted"
                                      ELSE "request.end">>

\* The timer's step: the one step that changes neither the clock nor the
\* record of the requests.  It keeps the entries with now <= expiry, in their
\* order, and only them.
SweepStepRemovesExpiredOnly ==
    probe.fn = "cleanExpiredCache" /\ probe' = probe /\ now' = now
        => cache' = SelectSeq(cache, LAMBDA e : e.expiry >= now)

\* C21 as stated: the sweep removes exactly the entries with now > expiry, and
\* the server with the sweep and the server without it make the same hit/miss
\* decisions, give the same answers and start the same fetches, whatever the
\* requests, the answers and the evictions.
C21_SweepInvisible ==
    [][SweepStepRemovesExpiredOnly /\ probe'.result.agree = "yes"]_vars

\* C21 amended: the sweep removes exactly the entries with now > expiry; with
\* coalescing on, the two servers make the same decisions, give the same
\* answers and start the same fetches, evictions included; with coalescing
\* off they can differ, but only after a capacity eviction.
C21_SweepInvisibleWhenCoalescing ==
    [][/\ SweepStepRemovesExpiredOnly
       /\ cacheMissSingleflight => probe'.result.agree = "yes"
       /\ probe'.result.agree = "no" => probe.result.evicted = "yes"]_vars

\* With coalescing on: the sweep has removed an expired entry that the server
\* without sweep still holds, an eviction has run, and all requests of the run
\* were decided and answered alike.
C21_Witness ==
    /\ probe.fn = "cleanExpiredCache" /\ cacheMissSingleflight
    /\ probe.result.agree = "yes" /\ probe.result.evicted = "yes"
    /\ probe.result.served = MaxSweepReqs
    /\ \E i \in 1..Len(probe.result.unswept) :
           /\ now > probe.result.unswept[i].expiry
           /\ ~Has(cache, probe.result.unswept[i].key)
    /\ cache # <<>>

====
